---------------------------- MODULE Spec2Model ----------------------------
(***************************************************************************)
(* Model of .github/scripts/review.py: the module-level configuration and  *)
(* client construction, the three stage functions get_pr_diff,             *)
(* get_ai_review and post_github_comment, and the __main__ block.          *)
(*                                                                         *)
(* Text values (str) are sequences of string tokens: a literal of the      *)
(* source is one or two tokens, opaque text (a diff, a completion, an      *)
(* error message) is a sequence over Chars.  Concatenation and f-string    *)
(* interpolation are \o.  A value that may be None is a record             *)
(* [isNone, val].                                                          *)
(***************************************************************************)
EXTENDS Naturals, Sequences, FiniteSets, TLC

VARIABLES
    env,        \* the five module-level configuration values (lines 8-12)
    pc,         \* position of the run
    diff,       \* __main__'s diff, the argument of get_ai_review
    review,     \* __main__'s review, the argument of post_github_comment
    calls,      \* external calls issued so far, in order
    log,        \* lines printed to standard output, in order
    fetchOut,   \* how the git fetch subprocess ended
    diffOut,    \* how the git diff subprocess ended
    aiOut,      \* how the completion request ended
    postOut     \* how the comment POST ended

vars == <<env, pc, diff, review, calls, log, fetchOut, diffOut, aiOut, postOut>>

----------------------------------------------------------------------------
(* Bounds *)

\* longest opaque text (diff, completion text, error message) drawn
MaxLen == 2

Chars == {"a", "b"}

RECURSIVE SeqsUpTo(_)
SeqsUpTo(n) ==
    IF n = 0 THEN {<< >>}
    ELSE LET S == SeqsUpTo(n - 1)
         IN  S \cup {Append(s, c) : s \in {t \in S : Len(t) = n - 1}, c \in Chars}

Texts == SeqsUpTo(MaxLen)

----------------------------------------------------------------------------
(* Python values *)

None == [isNone |-> TRUE, val |-> << >>]
Some(s) == [isNone |-> FALSE, val |-> s]

OptTexts == {None} \cup {Some(t) : t \in Texts}

\* truth value of a str-or-None, as tested by if x, not x and all([...])
Truthy(x) == ~x.isNone /\ x.val # << >>

\* f-string interpolation {x} of a str-or-None
Str(x) == IF x.isNone THEN <<"None">> ELSE x.val

StartsWith(s, p) == Len(s) >= Len(p) /\ SubSeq(s, 1, Len(p)) = p
EndsWith(s, p) == Len(s) >= Len(p) /\ SubSeq(s, Len(s) - Len(p) + 1, Len(s)) = p

Min(a, b) == IF a < b THEN a ELSE b

----------------------------------------------------------------------------
(* Configuration, lines 8-15 *)

EnvNames == {"OPENAI_API_KEY", "GITHUB_TOKEN", "GITHUB_REPOSITORY", "PR_NUMBER", "BASE_REF"}

\* os.environ.get(name): None when the variable is absent, else its value,
\* which may be the empty string
EnvValues == {None, Some(<< >>), Some(<<"v">>)}

Envs == [EnvNames -> EnvValues]

Absent(e) == {n \in EnvNames : e[n].isNone}

\* all([OPENAI_API_KEY, GITHUB_TOKEN, GITHUB_REPOSITORY, PR_NUMBER, BASE_REF])
AllConfigured(e) == \A n \in EnvNames : Truthy(e[n])

\* OpenAI(api_key=OPENAI_API_KEY): the constructor falls back to the
\* environment variable of the same name and raises OpenAIError when the key
\* is still None; an empty string is accepted.
ClientConstructionRaises(e) == e["OPENAI_API_KEY"].isNone

----------------------------------------------------------------------------
(* Outcomes of the external calls *)

NotRun == [kind |-> "notrun", out |-> None, err |-> << >>]

\* subprocess.run(..., check=True): exit zero with stdout, non-zero exit
\* (CalledProcessError carrying stderr), or another exception (OSError)
ProcOk(out) == [kind |-> "ok", out |-> Some(out), err |-> << >>]
ProcNonZero(err) == [kind |-> "nonzero", out |-> None, err |-> err]
ProcRaised(msg) == [kind |-> "raised", out |-> None, err |-> msg]

FetchOutcomes ==
    {ProcOk(<< >>)} \cup {ProcNonZero(t) : t \in Texts} \cup {ProcRaised(t) : t \in Texts}

DiffOutcomes ==
    {ProcOk(t) : t \in Texts} \cup {ProcNonZero(t) : t \in Texts}
        \cup {ProcRaised(t) : t \in Texts}

\* client.chat.completions.create(...): a response whose first choice has
\* message.content c (a str, or None), a response with no choice
\* (choices[0] raises IndexError), or an exception of the transport or API
AiOk(c) == [kind |-> "ok", out |-> c, err |-> << >>]
AiNoChoice == [kind |-> "nochoice", out |-> None, err |-> <<"list index out of range">>]
AiRaised(msg) == [kind |-> "raised", out |-> None, err |-> msg]

AiOutcomes == {AiOk(c) : c \in OptTexts} \cup {AiNoChoice} \cup {AiRaised(t) : t \in Texts}

\* requests.post + raise_for_status: success, an HTTP error status with a
\* response body, or another exception
StatusCodes == {"404", "422"}
PostOk == [kind |-> "ok", out |-> None, err |-> << >>, status |-> "2xx"]
PostHttpError(s, text) == [kind |-> "httperror", out |-> Some(text), err |-> << >>, status |-> s]
PostRaised(msg) == [kind |-> "raised", out |-> None, err |-> msg, status |-> ""]

PostOutcomes ==
    {PostOk} \cup {PostHttpError(s, t) : s \in StatusCodes, t \in Texts}
        \cup {PostRaised(t) : t \in Texts}

Call(kind, target, payload) == [kind |-> kind, target |-> target, payload |-> payload]


----------------------------------------------------------------------------
(* get_pr_diff, lines 19-45 *)

\* result.stdout[:500] of the log line at line 38
DiffLogLimit == 500

FetchCall(base) == Call("fetch", <<"git", "fetch", "origin">> \o Str(base), << >>)
DiffCall(base) == Call("diff", <<"git", "diff", "origin/">> \o Str(base) \o <<"...HEAD">>, << >>)

\* Mutant: the diff command runs although fetch failed (check=True dropped).
GetPrDiffCallsUnchecked(base, f) == <<FetchCall(base), DiffCall(base)>>

\* The subprocess calls get_pr_diff issues when fetch ends as f: the diff
\* command is reached only when fetch did not raise (check=True).
GetPrDiffCalls(base, f) ==
    IF f.kind = "ok" THEN <<FetchCall(base), DiffCall(base)>> ELSE <<FetchCall(base)>>

\* The except clauses, lines 40-45: the line printed for a failed subprocess.
ProcErrorLine(o) ==
    IF o.kind = "nonzero"
    THEN <<"Error getting git diff: ">> \o o.err
    ELSE <<"An unexpected error occurred in get_pr_diff: ">> \o o.err

GetPrDiffLog(base, f, d) ==
    <<  <<"Fetching base branch: ">> \o Str(base)  >>
    \o (IF f.kind # "ok" THEN << ProcErrorLine(f) >>
        ELSE << <<"Running diff command: ", "git diff origin/">> \o Str(base) \o <<"...HEAD">> >>
             \o (IF d.kind # "ok" THEN << ProcErrorLine(d) >>
                 ELSE IF d.out.val = << >> THEN << <<"No diff found. Exiting.">> >>
                 ELSE << <<"Diff found (first 500 chars): ">>
                         \o SubSeq(d.out.val, 1, Min(DiffLogLimit, Len(d.out.val)))
                         \o <<"...">> >>))

\* Mutant: the test of result.stdout is missing, an empty stdout is returned.
GetPrDiffReturnNoEmptyTest(f, d) ==
    IF f.kind = "ok" /\ d.kind = "ok" THEN d.out ELSE None

\* The value get_pr_diff returns: stdout when both commands exit zero and
\* stdout is not empty, None otherwise.
GetPrDiffReturn(f, d) ==
    IF f.kind = "ok" /\ d.kind = "ok" /\ d.out.val # << >> THEN d.out ELSE None

----------------------------------------------------------------------------
(* get_ai_review, lines 47-81 *)

Placeholder == <<"No code changes detected.">>
ErrorPrefix == <<"Error:", " Unable to get AI review. ">>

\* user_prompt, line 66; <fence> stands for the three backquotes of a code fence
UserPrompt(d) ==
    <<"Please review the following code diff:\n\n<fence>diff\n">> \o d \o <<"\n<fence>">>

CompletionCall(d) == Call("completion", <<"gpt-4o-mini">>, UserPrompt(Str(d)))

\* Mutant: the guard is (diff is None), so an empty string is sent.
GetAiReviewSkipsOnlyNone(d) == d.isNone

\* if not diff, line 51: the request is skipped for None and for "".
GetAiReviewSkips(d) == ~Truthy(d)

\* Mutant: the completion text is stripped to its first character, and the
\* except clause returns None.
GetAiReviewReturnLossy(d, a) ==
    IF GetAiReviewSkips(d) THEN Some(Placeholder)
    ELSE IF a.kind = "ok"
         THEN (IF a.out.isNone THEN None ELSE Some(SubSeq(a.out.val, 1, Min(1, Len(a.out.val)))))
         ELSE None

\* The value get_ai_review returns for argument d when the request ends as a.
GetAiReviewReturn(d, a) ==
    IF GetAiReviewSkips(d) THEN Some(Placeholder)
    ELSE IF a.kind = "ok" THEN a.out
         ELSE Some(ErrorPrefix \o a.err)

GetAiReviewLog(d, a) ==
    IF GetAiReviewSkips(d) THEN << >>
    ELSE << <<"Sending prompt to OpenAI...">> >>
         \o (IF a.kind = "ok" THEN << <<"OpenAI response received.">> >>
             ELSE IF a.kind = "nochoice"
                  THEN << <<"OpenAI response received.">>, <<"Error calling OpenAI: ">> \o a.err >>
                  ELSE << <<"Error calling OpenAI: ">> \o a.err >>)

----------------------------------------------------------------------------
(* post_github_comment, lines 83-107 *)

\* The literal of line 96: the markdown header (U+1F916 is the robot face
\* of the source) and the two line feeds that end it.
Header == <<"### [U+1F916] AI Code Review", "\n\n">>

ApiUrl(e) ==
    <<"https://api.github.com/repos/">> \o Str(e["GITHUB_REPOSITORY"])
        \o <<"/issues/">> \o Str(e["PR_NUMBER"]) \o <<"/comments">>

\* Mutant: the review is cut to its first character.
CommentBodyTruncated(r) == Header \o SubSeq(r.val, 1, Min(1, Len(r.val)))

\* body["body"], line 96, for a review text that is a str
CommentBody(r) == Header \o r.val

\* str + None raises TypeError, at line 96, outside the try of line 99
CommentBodyRaises(r) == r.isNone

PostCall(e, r) == Call("post", ApiUrl(e), CommentBody(r))

\* Mutant: the HTTPError clause prints neither status nor response text.
PostLogNoDetail(e, p) ==
    << <<"Posting comment to ">> \o ApiUrl(e) \o <<"...">> >>
    \o (IF p.kind = "ok"
        THEN << <<"Successfully posted comment to PR #">> \o Str(e["PR_NUMBER"]) \o <<".">> >>
        ELSE << <<"Error posting comment: ">> >>)

\* The lines post_github_comment prints when the POST ends as p.
PostLog(e, p) ==
    << <<"Posting comment to ">> \o ApiUrl(e) \o <<"...">> >>
    \o (IF p.kind = "ok"
        THEN << <<"Successfully posted comment to PR #">> \o Str(e["PR_NUMBER"]) \o <<".">> >>
        ELSE IF p.kind = "httperror"
             THEN << <<"Error posting comment: ", p.status, " ">> \o p.out.val >>
             ELSE << <<"An unexpected error occurred in post_github_comment: ">> \o p.err >>)

----------------------------------------------------------------------------
(* The run: module load, then __main__, lines 111-127 *)

ConfigErrorLine == <<"Error: Missing one or more required environment variables.">>
StartLine == <<"--- Starting AI Code Review ---">>
FinishedLine == <<"--- AI Code Review Finished ---">>

Init ==
    /\ env \in Envs
    /\ pc = "load"
    /\ diff = None
    /\ review = None
    /\ calls = << >>
    /\ log = << >>
    /\ fetchOut = NotRun
    /\ diffOut = NotRun
    /\ aiOut = NotRun
    /\ postOut = NotRun

\* lines 1-15: the imports, the five reads of the environment and the
\* construction of the client; an exception here is uncaught
LoadModule ==
    /\ pc = "load"
    /\ pc' = IF ClientConstructionRaises(env) THEN "crashed" ELSE "main"
    /\ UNCHANGED <<env, diff, review, calls, log, fetchOut, diffOut, aiOut, postOut>>

\* lines 112-117
MainCheck ==
    /\ pc = "main"
    /\ IF ~AllConfigured(env)
       THEN /\ log' = Append(log, ConfigErrorLine)
            /\ pc' = "done"
       ELSE /\ log' = log \o <<StartLine, <<"Fetching PR diff...">> >>
            /\ pc' = "get_pr_diff"
    /\ UNCHANGED <<env, diff, review, calls, fetchOut, diffOut, aiOut, postOut>>

\* Mutant: get_pr_diff is called again after a failed fetch.
GetPrDiffRetrying ==
    /\ pc = "get_pr_diff"
    /\ \E f \in FetchOutcomes :
         \E d \in (IF f.kind = "ok" THEN DiffOutcomes ELSE {NotRun}) :
           /\ fetchOut' = f
           /\ diffOut' = d
           /\ calls' = calls \o GetPrDiffCalls(env["BASE_REF"], f)
           /\ log' = log \o GetPrDiffLog(env["BASE_REF"], f, d)
           /\ diff' = GetPrDiffReturn(f, d)
           /\ pc' = IF f.kind = "ok" THEN "gate" ELSE "get_pr_diff"
    /\ UNCHANGED <<env, review, aiOut, postOut>>

\* line 118: diff = get_pr_diff()
GetPrDiff ==
    /\ pc = "get_pr_diff"
    /\ \E f \in FetchOutcomes :
         \E d \in (IF f.kind = "ok" THEN DiffOutcomes ELSE {NotRun}) :
           /\ fetchOut' = f
           /\ diffOut' = d
           /\ calls' = calls \o GetPrDiffCalls(env["BASE_REF"], f)
           /\ log' = log \o GetPrDiffLog(env["BASE_REF"], f, d)
           /\ diff' = GetPrDiffReturn(f, d)
    /\ pc' = "gate"
    /\ UNCHANGED <<env, review, aiOut, postOut>>

\* Mutant: the gate is missing, the review always runs.
MainGateOpen ==
    /\ pc = "gate"
    /\ log' = Append(log, <<"Diff fetched. Getting AI review...">>)
    /\ pc' = "get_ai_review"
    /\ UNCHANGED <<env, diff, review, calls, fetchOut, diffOut, aiOut, postOut>>

\* lines 120-121: if diff:
MainGate ==
    /\ pc = "gate"
    /\ IF Truthy(diff)
       THEN /\ log' = Append(log, <<"Diff fetched. Getting AI review...">>)
            /\ pc' = "get_ai_review"
       ELSE /\ log' = log
            /\ pc' = "finish"
    /\ UNCHANGED <<env, diff, review, calls, fetchOut, diffOut, aiOut, postOut>>

\* line 122: review = get_ai_review(diff)
GetAiReview ==
    /\ pc = "get_ai_review"
    /\ \E a \in (IF GetAiReviewSkips(diff) THEN {NotRun} ELSE AiOutcomes) :
         /\ aiOut' = a
         /\ calls' = IF GetAiReviewSkips(diff) THEN calls
                     ELSE Append(calls, CompletionCall(diff))
         /\ log' = log \o GetAiReviewLog(diff, a)
         /\ review' = GetAiReviewReturn(diff, a)
    /\ pc' = "announce"
    /\ UNCHANGED <<env, diff, fetchOut, diffOut, postOut>>

\* line 124
MainAnnounce ==
    /\ pc = "announce"
    /\ log' = Append(log, <<"AI review received. Posting to GitHub...">>)
    /\ pc' = "post_github_comment"
    /\ UNCHANGED <<env, diff, review, calls, fetchOut, diffOut, aiOut, postOut>>

\* line 125: post_github_comment(review); the TypeError of line 96 is uncaught
PostGithubComment ==
    /\ pc = "post_github_comment"
    /\ IF CommentBodyRaises(review)
       THEN /\ pc' = "crashed"
            /\ UNCHANGED <<calls, log, postOut>>
       ELSE /\ \E p \in PostOutcomes :
                 /\ postOut' = p
                 /\ calls' = Append(calls, PostCall(env, review))
                 /\ log' = log \o PostLog(env, p)
            /\ pc' = "finish"
    /\ UNCHANGED <<env, diff, review, fetchOut, diffOut, aiOut>>

\* line 127
MainFinish ==
    /\ pc = "finish"
    /\ log' = Append(log, FinishedLine)
    /\ pc' = "done"
    /\ UNCHANGED <<env, diff, review, calls, fetchOut, diffOut, aiOut, postOut>>

Next ==
    \/ LoadModule
    \/ MainCheck
    \/ GetPrDiff
    \/ MainGate
    \/ GetAiReview
    \/ MainAnnounce
    \/ PostGithubComment
    \/ MainFinish

Spec == Init /\ [][Next]_vars


----------------------------------------------------------------------------
(* Direct calls of get_ai_review(diff), with every argument it accepts, in a *)
(* process whose module load succeeded                                      *)

GetAiReviewInit ==
    /\ env \in {e \in Envs : ~ClientConstructionRaises(e)}
    /\ pc = "get_ai_review"
    /\ diff \in OptTexts
    /\ review = None
    /\ calls = << >>
    /\ log = << >>
    /\ fetchOut = NotRun
    /\ diffOut = NotRun
    /\ aiOut = NotRun
    /\ postOut = NotRun

GetAiReviewNext == GetAiReview

GetAiReviewSpec == GetAiReviewInit /\ [][GetAiReviewNext]_vars

----------------------------------------------------------------------------
(* Properties *)

Stages == <<"fetch", "diff", "completion", "post">>

Kinds == [i \in 1..Len(calls) |-> calls[i].kind]

CallsOf(k) == {i \in 1..Len(calls) : calls[i].kind = k}

Logged(line) == \E i \in 1..Len(log) : log[i] = line

LastLogged(line) == Len(log) > 0 /\ log[Len(log)] = line

\* C1: whenever at least one of the five variables is absent, no external
\* call is ever issued and the run ends having logged the configuration error.
C1_MissingConfigLogsAndCallsNothing ==
    Absent(env) # {} =>
        /\ calls = << >>
        /\ (pc \in {"done", "crashed"} => pc = "done" /\ Logged(ConfigErrorLine))

\* C2: for every configuration and every outcome of the external calls, no
\* exception reaches the top level.
C2_NoExceptionPropagates == pc # "crashed"

\* C3: with complete configuration the calls issued are a prefix of fetch,
\* diff, completion, POST; diff is issued only after fetch exited zero, the
\* completion request only after get_pr_diff returned a diff, the POST only
\* after get_ai_review returned.
C3_StagesInOrderAndGated ==
    AllConfigured(env) =>
        /\ \E n \in 0..Len(Stages) : Kinds = SubSeq(Stages, 1, n)
        /\ (CallsOf("diff") # {} => fetchOut.kind = "ok")
        /\ (CallsOf("completion") # {} =>
                diffOut.kind = "ok" /\ Truthy(diff) /\ diff = diffOut.out)
        /\ (CallsOf("post") # {} =>
                aiOut.kind \in {"ok", "nochoice", "raised"} /\ ~review.isNone)

C3_Witness == AllConfigured(env) /\ Kinds = Stages

\* C4: after a non-zero exit of git fetch or git diff, get_pr_diff has logged
\* the error and returned None, no completion request and no POST is ever
\* issued, nothing is raised, and the run goes on to print its final line.
C4_GitFailureYieldsNoReview ==
    (fetchOut.kind = "nonzero" \/ diffOut.kind = "nonzero") =>
        /\ diff = None
        /\ Logged(<<"Error getting git diff: ">>
                  \o (IF fetchOut.kind = "nonzero" THEN fetchOut.err ELSE diffOut.err))
        /\ CallsOf("completion") = {}
        /\ CallsOf("post") = {}
        /\ pc \in {"gate", "finish", "done"}
        /\ (pc = "done" => LastLogged(FinishedLine))
        /\ (pc # "done" => ENABLED Next)

C4_Witness ==
    /\ fetchOut.kind = "ok"
    /\ diffOut.kind = "nonzero"
    /\ pc = "done"

\* C5: when the completion call raises, get_ai_review returns a string that
\* begins with "Error:", and the run goes on to issue the POST with that
\* string as the review text.
C5_CompletionErrorIsPublished ==
    aiOut.kind \in {"raised", "nochoice"} =>
        /\ ~review.isNone
        /\ StartsWith(review.val, <<"Error:">>)
        /\ EndsWith(review.val, aiOut.err)
        /\ pc \in {"announce", "post_github_comment", "finish", "done"}
        /\ (pc \in {"announce", "post_github_comment"} => ENABLED Next)
        /\ (pc \in {"finish", "done"} =>
                \E i \in CallsOf("post") :
                    /\ StartsWith(calls[i].payload, Header)
                    /\ EndsWith(calls[i].payload, review.val)
                    /\ Len(calls[i].payload) = Len(Header) + Len(review.val))

C5_Witness ==
    /\ aiOut.kind = "raised"
    /\ aiOut.err # << >>
    /\ pc = "done"
    /\ CallsOf("post") # {}

\* C6: get_ai_review called with None or with the empty string returns
\* exactly "No code changes detected." and sends no completion request.
C6_EmptyDiffGivesPlaceholder ==
    (pc = "announce" /\ (diff.isNone \/ diff.val = << >>)) =>
        /\ review = Some(<<"No code changes detected.">>)
        /\ calls = << >>
        /\ aiOut.kind = "notrun"

C6_Witness ==
    /\ pc = "announce"
    /\ diff = Some(<< >>)
    /\ review = Some(<<"No code changes detected.">>)

\* C7: every body posted starts with the markdown header and continues with
\* the whole review text, nothing else; and the review of a successful
\* completion call is the first choice's message content unchanged.
C7_BodyIsHeaderThenReview ==
    /\ \A i \in CallsOf("post") :
          /\ ~review.isNone
          /\ StartsWith(calls[i].payload, <<"### [U+1F916] AI Code Review">>)
          /\ StartsWith(calls[i].payload, Header)
          /\ EndsWith(calls[i].payload, review.val)
          /\ Len(calls[i].payload) = Len(Header) + Len(review.val)
    /\ (aiOut.kind = "ok" => review = aiOut.out)

C7_Witness ==
    /\ aiOut.kind = "ok"
    /\ CallsOf("post") # {}
    /\ Len(review.val) >= 2

\* C8: when the POST is answered with an HTTP error status, the status code
\* and the response body are logged, nothing is raised, and the run goes on
\* to print its final line.
C8_HttpErrorIsLoggedNotRaised ==
    postOut.kind = "httperror" =>
        /\ Logged(<<"Error posting comment: ", postOut.status, " ">> \o postOut.out.val)
        /\ pc \in {"finish", "done"}
        /\ (pc = "finish" => ENABLED MainFinish)
        /\ (pc = "done" => LastLogged(FinishedLine))

C8_Witness ==
    /\ postOut.kind = "httperror"
    /\ postOut.status = "422"
    /\ postOut.out.val # << >>
    /\ pc = "done"

\* C9: each of git fetch, git diff, the completion request and the POST is
\* issued at most once in a run.
C9_NoStageRetried ==
    \A i \in 1..Len(Stages) : Cardinality(CallsOf(Stages[i])) <= 1

C9_Witness ==
    /\ fetchOut.kind = "nonzero"
    /\ pc = "done"
    /\ Cardinality(CallsOf("fetch")) = 1

\* C10: when fetch and diff exit zero with empty output, get_pr_diff returns
\* None as on failure and neither a completion request nor a POST is issued;
\* get_ai_review is never entered with an empty diff, so every review comes
\* from a completion request; a POST implies a non-empty diff output.
C10_EmptyDiffPostsNothing ==
    /\ (fetchOut.kind = "ok" /\ diffOut.kind = "ok" /\ diffOut.out.val = << >>) =>
          /\ diff = None
          /\ CallsOf("completion") = {}
          /\ CallsOf("post") = {}
          /\ pc \in {"gate", "finish", "done"}
    /\ (pc = "get_ai_review" => Truthy(diff))
    /\ (pc \in {"announce", "post_github_comment"} => aiOut.kind # "notrun")
    /\ (CallsOf("post") # {} =>
          diffOut.kind = "ok" /\ diffOut.out.val # << >> /\ CallsOf("completion") # {})

C10_Witness ==
    /\ fetchOut.kind = "ok"
    /\ diffOut.kind = "ok"
    /\ diffOut.out.val = << >>
    /\ pc = "done"

============================================================================
